---- MODULE Spec2Model ----
(***************************************************************************)
(* Persistence layer of the artwork catalog: the session scope get_db      *)
(* (src/src/database/database.py), the generic repository BaseCRUD and its *)
(* four specialisations (src/src/database/crud.py), and the schema         *)
(* (src/src/database/models.py).                                           *)
(*                                                                         *)
(* The database is the variable store: one set of rows per table.  A row   *)
(* is a record over the columns the model keeps for its table; every       *)
(* column value is a string, Python's None is the string "None", and an    *)
(* identifier is the decimal string of a counter (uuid4 never repeats),    *)
(* drawn from IdStrings.                                                   *)
(* The session is the variable pending: the unit of work that the next     *)
(* commit flushes.                                                         *)
(*                                                                         *)
(* Three specifications share the repository operations:                   *)
(*   Spec         repository calls of all four kinds on one open session   *)
(*                that holds no directly staged work;                      *)
(*   SpecArtwork  calls on the Artwork repository alone, with every        *)
(*                keyword, the identifier and an unknown one included;     *)
(*   SpecScope    whole get_db scopes whose bodies stage Artwork records   *)
(*                directly (db.add) and call the Artwork repository.       *)
(* Each further specification covers one part of the program:             *)
(*   SpecStatistics  get_statistics over any table of appearances;         *)
(*   SpecSample      create_sample_data (src/database_setup.py), run       *)
(*                   repeatedly, with and without failures;                *)
(*   SpecSingleton   get_engine and get_session_maker called from two      *)
(*                   threads;                                              *)
(*   SpecCli         main of src/database_setup.py over every choice of    *)
(*                   steps and every outcome of each;                      *)
(*   SpecProbe       test_connection and get_db_info over every failure;   *)
(*   SpecDimensions  search_by_dimensions over any table of artworks;      *)
(*   SpecDates       get_by_date_range and get_current_exhibitions over    *)
(*                   any table of exhibitions;                             *)
(*   SpecText        search_by_title and search_by_artist, a text being    *)
(*                   the sequence of its characters;                       *)
(*   SpecPhoto       mark_processed and get_unprocessed over any table of  *)
(*                   photos;                                               *)
(*   SpecVerify      verify_appearance, get_verified, get_unverified and   *)
(*                   get_statistics over any table of appearances;         *)
(*   SpecAppearance  create, update, delete and verify_appearance on the   *)
(*                   appearance repository, from an empty table.           *)
(* A nullable number or date, and an optional argument, is a set: empty    *)
(* for NULL or None, {v} for the value v.                                  *)
(***************************************************************************)
EXTENDS Integers, Sequences, FiniteSets, TLC

\* ---------------------------------------------------------------- bounds
\* Rows stored over the four tables together.
MaxRows == 4
\* Keyword arguments of one create or update call.
MaxKwargs == 2
\* Records staged directly in one session before a commit.
MaxPending == 1
\* Invocations of create_sample_data, one after another.
MaxRuns == 3
\* Calls of test_connection / get_db_info, one after another.
MaxProbes == 2

\* ---------------------------------------------------------------- schema
None == "None"

Kinds == {"Artwork", "Exhibition", "InstallationPhoto", "ArtworkAppearance"}

\* The columns kept per table (models.py).  Artwork.artist and
\* Exhibition.museum are required text columns like title and name, and
\* InstallationPhoto.image_path and the ArtworkAppearance bbox/confidence
\* columns are required like the foreign keys; one required column of each
\* shape is kept.
Columns(k) ==
  CASE k = "Artwork" -> {"id", "title", "catalog_number"}
    [] k = "Exhibition" -> {"id", "name"}
    [] k = "InstallationPhoto" -> {"id", "exhibition_id", "processed"}
    [] k = "ArtworkAppearance" -> {"id", "artwork_id", "photo_id", "verified"}

\* nullable=False columns; the primary key is never null either.
Required(k) ==
  CASE k = "Artwork" -> {"id", "title"}
    [] k = "Exhibition" -> {"id", "name"}
    [] k = "InstallationPhoto" -> {"id", "exhibition_id"}
    [] k = "ArtworkAppearance" -> {"id", "artwork_id", "photo_id"}

\* unique=True columns besides the primary key.
UniqueColumns(k) == IF k = "Artwork" THEN {"catalog_number"} ELSE {}

\* ForeignKey(...) columns: <<column, referenced table>>.
ForeignKeys(k) ==
  CASE k = "InstallationPhoto" -> {<<"exhibition_id", "Exhibition">>}
    [] k = "ArtworkAppearance" ->
         {<<"artwork_id", "Artwork">>, <<"photo_id", "InstallationPhoto">>}
    [] OTHER -> {}

\* Column(..., default=...) applied by an INSERT to a column left None.
HasDefault(k, c) ==
  \/ k = "InstallationPhoto" /\ c = "processed"
  \/ k = "ArtworkAppearance" /\ c = "verified"

\* ------------------------------------------------------- input universes
\* The identifiers in play per table: uuid4 yields them in this order, and
\* a caller may pass any of them as a foreign key.
IdStrings == {"1", "2"}
Titles == {"t1", "t2"}
CatalogNumbers == {"c1"}
Names == {"n1"}

\* The values a caller passes under a keyword; "bogus" is a keyword that
\* is no attribute of any entity.
KeyValues(c) ==
  CASE c = "title" -> Titles \cup {None}
    [] c = "catalog_number" -> CatalogNumbers \cup {None}
    [] c = "name" -> Names \cup {None}
    [] c = "bogus" -> {"x"}
    [] c \in {"processed", "verified"} -> {"True", "False", None}
    [] OTHER -> IdStrings \cup {None}

AllValues ==
  Titles \cup CatalogNumbers \cup Names \cup IdStrings
    \cup {None, "x", "True", "False"}

\* Every **kwargs of at most MaxKwargs keywords among `keys`.
KwargsOver(keys) ==
  UNION { {kw \in [D -> AllValues] : \A c \in D : kw[c] \in KeyValues(c)} :
          D \in {D \in SUBSET keys : Cardinality(D) <= MaxKwargs} }

\* Calls on the Artwork repository: every column, and the unknown keyword.
ArtworkKwargs == KwargsOver({"id", "title", "catalog_number", "bogus"})

\* Calls on the four repositories that build and change the links
\* between the tables.
Supplied(kws) == {kw \in kws : \A c \in DOMAIN kw : kw[c] \notin {None, "t2"}}
LinkArtworkKwargs == Supplied(KwargsOver({"title"}))
LinkExhibitionKwargs == Supplied(KwargsOver({"name"}))
LinkPhotoKwargs == Supplied(KwargsOver({"exhibition_id"}))
LinkAppearanceKwargs == Supplied(KwargsOver({"artwork_id", "photo_id"}))

LinkKwargs(k) ==
  CASE k = "Artwork" -> LinkArtworkKwargs
    [] k = "Exhibition" -> LinkExhibitionKwargs
    [] k = "InstallationPhoto" -> LinkPhotoKwargs
    [] k = "ArtworkAppearance" -> LinkAppearanceKwargs

\* Scope bodies stage and write Artwork records.
ScopeKwargs == Supplied(KwargsOver({"title", "catalog_number"}))

Backends == {"sqlite", "postgresql"}

VARIABLES
  backend,   \* the configured database kind (database.py get_engine)
  store,     \* committed rows: [Kinds -> set of rows]
  nextId,    \* [Kinds -> Nat]: the next identifier uuid4 yields per table
  pending,   \* the session's unit of work: staged operations, in order
  pc,        \* position of the get_db scope
  last,      \* the last repository call and what it returned
  sessions,  \* sessions opened by get_session and not yet closed
  exc,       \* the exception in flight, and after the scope the one it raised
  scope,     \* what the current (or last) scope did
  sample,    \* create_sample_data: its position, locals and invocations
  engine,    \* the module global `engine` (database.py): None or an engine
  SessionLocal,  \* the module global `SessionLocal`: the session factory
  threads,   \* per thread: where it is in get_engine / get_session
  built,     \* engines and factories constructed, assignments to the globals
  cli,       \* database_setup.py main: arguments, position, steps run
  probe      \* test_connection / get_db_info: position and result

\* The module globals and the threads that race for them.
singletonVars == <<engine, SessionLocal, threads, built>>

\* The state of the routines around the repository.
procVars == <<sample, singletonVars, cli, probe>>

vars ==
  <<backend, store, nextId, pending, pc, last, sessions, exc, scope, procVars>>

\* ------------------------------------------------------------- database
Ids(S, k) == {r.id : r \in S[k]}

Issued(k) == {ToString(i) : i \in 1..(nextId[k] - 1)}

RowCount(S) ==
  Cardinality(S["Artwork"]) + Cardinality(S["Exhibition"])
    + Cardinality(S["InstallationPhoto"]) + Cardinality(S["ArtworkAppearance"])

\* NOT NULL constraints of an inserted or updated row.
NotNullOk(k, row) == \A c \in Required(k) : row[c] # None

\* A schema without unique=True: no UNIQUE constraint is checked.
UniqueUnchecked(rows, k, row) == TRUE

\* UNIQUE constraints of `row` against the other rows `rows` of its table
\* (SQL NULLs never collide).
UniqueOk(rows, k, row) ==
  \A c \in UniqueColumns(k) : row[c] # None => \A r \in rows : r[c] # row[c]

\* FOREIGN KEY constraints of `row` against the tables of S.
ForeignKeysOk(S, k, row) ==
  \A fk \in ForeignKeys(k) : row[fk[1]] = None \/ row[fk[1]] \in Ids(S, fk[2])

\* SQLite checks foreign keys only under PRAGMA foreign_keys=ON, which
\* get_engine never issues; PostgreSQL always checks them.
EnforcesForeignKeys(b) == b = "postgresql"

\* Some row of S references row `id` of table k.
Referenced(S, k, id) ==
  \E k2 \in Kinds : \E fk \in ForeignKeys(k2) :
    fk[2] = k /\ \E r \in S[k2] : r[fk[1]] = id

\* An INSERT that writes the default over a supplied value.
DefaultsOverSupplied(k, row, n) ==
  [c \in Columns(k) |->
     IF HasDefault(k, c) THEN "False"
     ELSE IF row[c] # None THEN row[c]
     ELSE IF c = "id" THEN ToString(n)
     ELSE None]

\* The row an INSERT writes: a None primary key takes uuid4() (the counter),
\* a None column with a default takes the default.
WithDefaults(k, row, n) ==
  [c \in Columns(k) |->
     IF row[c] # None THEN row[c]
     ELSE IF c = "id" THEN ToString(n)
     ELSE IF HasDefault(k, c) THEN "False"
     ELSE None]

\* One flushed statement.  st = [ok, store, nextId]; a violated constraint
\* clears ok (IntegrityError) and leaves the rest of st as it was.
InsertStatement(b, st, w) ==
  LET k == w.kind
      S == st.store
      row == WithDefaults(k, w.row, st.nextId[k])
      ok == /\ row.id \notin Ids(S, k)
            /\ NotNullOk(k, row)
            /\ UniqueOk(S[k], k, row)
            /\ EnforcesForeignKeys(b) => ForeignKeysOk(S, k, row)
  IN IF ok
     THEN [ok |-> TRUE,
           store |-> [S EXCEPT ![k] = @ \cup {row}],
           nextId |-> IF w.row.id = None
                      THEN [st.nextId EXCEPT ![k] = @ + 1]
                      ELSE st.nextId]
     ELSE [st EXCEPT !.ok = FALSE]

\* UPDATE of the row loaded as w.id to the values w.row; an object whose
\* attributes are all unchanged emits no statement.
UpdateStatement(b, st, w) ==
  LET k == w.kind
      S == st.store
      old == CHOOSE r \in S[k] : r.id = w.id
      others == S[k] \ {old}
      new == w.row
      ok == \/ new = old
            \/ /\ new.id \notin {r.id : r \in others}
               /\ NotNullOk(k, new)
               /\ UniqueOk(others, k, new)
               /\ EnforcesForeignKeys(b) =>
                    /\ ForeignKeysOk(S, k, new)
                    /\ new.id # old.id => ~Referenced(S, k, old.id)
  IN IF ok
     THEN [st EXCEPT !.store = [S EXCEPT ![k] = others \cup {new}]]
     ELSE [st EXCEPT !.ok = FALSE]

\* DELETE of the rows w.rows (the object and its ORM cascade).
DeleteStatement(b, st, w) ==
  LET S == [k \in Kinds |-> st.store[k] \ w.rows[k]]
      ok == EnforcesForeignKeys(b) =>
              \A k \in Kinds : \A r \in S[k] : ForeignKeysOk(S, k, r)
  IN IF ok THEN [st EXCEPT !.store = S] ELSE [st EXCEPT !.ok = FALSE]

Statement(b, st, w) ==
  CASE w.op = "add" -> InsertStatement(b, st, w)
    [] w.op = "set" -> UpdateStatement(b, st, w)
    [] w.op = "del" -> DeleteStatement(b, st, w)

\* The order in which a flush emits the unit of work: updates, then
\* inserts with parent tables first, then deletes.
FlushOrder(work) ==
  SelectSeq(work, LAMBDA w : w.op = "set")
    \o SelectSeq(work, LAMBDA w : w.op = "add" /\ w.kind = "Artwork")
    \o SelectSeq(work, LAMBDA w : w.op = "add" /\ w.kind = "Exhibition")
    \o SelectSeq(work, LAMBDA w : w.op = "add" /\ w.kind = "InstallationPhoto")
    \o SelectSeq(work, LAMBDA w : w.op = "add" /\ w.kind = "ArtworkAppearance")
    \o SelectSeq(work, LAMBDA w : w.op = "del")

RECURSIVE FlushFrom(_, _, _, _)
FlushFrom(b, st, ws, i) ==
  IF i > Len(ws) \/ ~st.ok THEN st
  ELSE FlushFrom(b, Statement(b, st, ws[i]), ws, i + 1)

\* session.commit(): flush the unit of work in one transaction.  The result
\* is [ok, store, nextId]; when ok is FALSE nothing was written.
Commit(b, S, n, work) ==
  LET st == FlushFrom(b, [ok |-> TRUE, store |-> S, nextId |-> n],
                      FlushOrder(work), 1)
  IN IF st.ok THEN st ELSE [ok |-> FALSE, store |-> S, nextId |-> n]

\* ----------------------------------------------------------- repository
\* model(**kwargs): the declarative constructor rejects a keyword that is
\* no attribute of the class (TypeError); a column not passed is None.
Row(k, kwargs) ==
  [c \in Columns(k) |-> IF c \in DOMAIN kwargs THEN kwargs[c] ELSE None]

InvalidKeyword(k, kwargs) == \E c \in DOMAIN kwargs : c \notin Columns(k)

\* A query without its filter: every row of the table.
any_row(S, k, id) == S[k]

\* Rows of table k with identifier id, in the committed store (the session
\* is autoflush=False, so a query does not see pending work).  The empty
\* set is Python's None.
get_by_id(S, k, id) == {r \in S[k] : r.id = id}

\* An update that rebuilds the object from the keywords: a column not
\* passed is reset instead of kept.
AssignedAnew(k, old, kwargs) ==
  [c \in Columns(k) |->
     IF c \in DOMAIN kwargs THEN kwargs[c]
     ELSE IF c = "id" THEN old.id
     ELSE None]

\* hasattr/setattr of update: keys that are attributes are assigned, the
\* others skipped.
Assigned(k, old, kwargs) ==
  [c \in Columns(k) |-> IF c \in DOMAIN kwargs THEN kwargs[c] ELSE old[c]]

\* Relationships without the cascade on InstallationPhoto.artwork_appearances:
\* the object and its direct children only.
CascadeChildren(S, k, id) ==
  [k2 \in Kinds |->
     IF k2 = k THEN {r \in S[k] : r.id = id}
     ELSE IF k = "Exhibition" /\ k2 = "InstallationPhoto"
     THEN {p \in S[k2] : p.exhibition_id = id}
     ELSE IF k = "Artwork" /\ k2 = "ArtworkAppearance"
     THEN {x \in S[k2] : x.artwork_id = id}
     ELSE IF k = "InstallationPhoto" /\ k2 = "ArtworkAppearance"
     THEN {x \in S[k2] : x.photo_id = id}
     ELSE {}]

\* What db.delete(obj) marks for deletion: the object and, through the
\* relationships with cascade="all, delete-orphan", its dependents.
Cascade(S, k, id) ==
  LET photos == IF k = "Exhibition"
                THEN {p \in S["InstallationPhoto"] : p.exhibition_id = id}
                ELSE IF k = "InstallationPhoto"
                THEN get_by_id(S, k, id)
                ELSE {}
      appearances ==
        IF k = "Artwork"
        THEN {x \in S["ArtworkAppearance"] : x.artwork_id = id}
        ELSE IF k = "ArtworkAppearance"
        THEN get_by_id(S, k, id)
        ELSE {x \in S["ArtworkAppearance"] :
                x.photo_id \in {p.id : p \in photos}}
  IN [k2 \in Kinds |->
        CASE k2 = "InstallationPhoto" -> photos
          [] k2 = "ArtworkAppearance" -> appearances
          [] OTHER -> IF k2 = k THEN get_by_id(S, k, id) ELSE {}]

\* Identifiers uuid4 will have to yield for the adds already staged.
PendingAuto(k) ==
  Len(SelectSeq(pending,
                LAMBDA w : w.op = "add" /\ w.kind = k /\ w.row.id = None))

\* The model's bounds on one more stored row of kind k built from kwargs.
WithinBounds(k, kwargs) ==
  /\ RowCount(store) + Len(pending) < MaxRows
  /\ IF "id" \in DOMAIN kwargs /\ kwargs["id"] # None
     THEN kwargs["id"] \in Issued(k)
     ELSE ToString(nextId[k] + PendingAuto(k)) \in IdStrings

\* What a repository call comes to: the store and the counters it leaves,
\* what it returns (out: "entity", "None", "True", "False", or "raise" for
\* an exception re-raised after db.rollback()), and the identifier of the
\* entity returned (ret).
Returned(S, n, out, ret) == [store |-> S, nextId |-> n, out |-> out, ret |-> ret]

\* BaseCRUD.create(db, **kwargs)
create(k, kwargs) ==
  LET work == Append(pending, [op |-> "add", kind |-> k, row |-> Row(k, kwargs)])
      res == Commit(backend, store, nextId, work)
      id == IF Row(k, kwargs).id # None THEN kwargs["id"]
            ELSE ToString(res.nextId[k] - 1)
  IN IF ~InvalidKeyword(k, kwargs) /\ res.ok
     THEN Returned(res.store, res.nextId, "entity", id)
     ELSE Returned(store, nextId, "raise", None)

\* BaseCRUD.update(db, id, **kwargs)
update(k, id, kwargs) ==
  IF get_by_id(store, k, id) = {}
  THEN Returned(store, nextId, "None", None)
  ELSE LET db_obj == CHOOSE r \in get_by_id(store, k, id) : TRUE
           new == Assigned(k, db_obj, kwargs)
           work == Append(pending,
                     [op |-> "set", kind |-> k, id |-> id, row |-> new])
           res == Commit(backend, store, nextId, work)
       IN IF res.ok
          THEN Returned(res.store, res.nextId, "entity", new.id)
          ELSE Returned(store, nextId, "raise", None)

\* A delete without the not-found test: it commits and reports success
\* whether or not the record exists.
delete_unchecked(k, id) ==
  LET rows == [k2 \in Kinds |-> IF k2 = k THEN {r \in store[k] : r.id = id} ELSE {}]
      res == Commit(backend, store, nextId,
                    Append(pending, [op |-> "del", rows |-> rows]))
  IN IF res.ok
     THEN Returned(res.store, res.nextId, "True", None)
     ELSE Returned(store, nextId, "raise", None)

\* BaseCRUD.delete(db, id)
delete(k, id) ==
  IF get_by_id(store, k, id) = {}
  THEN Returned(store, nextId, "False", None)
  ELSE LET work == Append(pending,
                     [op |-> "del", rows |-> Cascade(store, k, id)])
           res == Commit(backend, store, nextId, work)
       IN IF res.ok
          THEN Returned(res.store, res.nextId, "True", None)
          ELSE Returned(store, nextId, "raise", None)

\* `if detection_results:` and `if notes:`: None, the empty dictionary and
\* the empty string are false.
Truth(value) == value \notin {None, "{}", ""}

\* The two transition operations: load the object, assign `changes` to
\* its attributes (those among the columns kept), commit.
transition(k, id, changes) ==
  IF get_by_id(store, k, id) = {}
  THEN Returned(store, nextId, "False", None)
  ELSE LET db_obj == CHOOSE r \in get_by_id(store, k, id) : TRUE
           new == [c \in DOMAIN db_obj |->
                     IF c \in DOMAIN changes THEN changes[c] ELSE db_obj[c]]
           work == Append(pending,
                     [op |-> "set", kind |-> k, id |-> id, row |-> new])
           res == Commit(backend, store, nextId, work)
       IN IF res.ok
          THEN Returned(res.store, res.nextId, "True", None)
          ELSE Returned(store, nextId, "raise", None)

\* InstallationPhotoCRUD.mark_processed(db, id, detection_results), `now`
\* being what datetime.now() returned.
mark_processed(id, now, detection_results) ==
  transition("InstallationPhoto", id,
             IF Truth(detection_results)
             THEN [processed |-> "True", processing_date |-> now,
                   detection_results |-> detection_results]
             ELSE [processed |-> "True", processing_date |-> now])

\* ArtworkAppearanceCRUD.verify_appearance(db, id, verified_by, notes)
verify_appearance(id, now, verified_by, notes) ==
  transition("ArtworkAppearance", id,
             IF Truth(notes)
             THEN [verified |-> "True", verified_by |-> verified_by,
                   verification_date |-> now, notes |-> notes]
             ELSE [verified |-> "True", verified_by |-> verified_by,
                   verification_date |-> now])

\* A call that reached db.commit() or db.rollback() leaves the session with
\* no pending work; a call that returned before either leaves it alone.
AfterCall(r) ==
  IF r.out \in {"None", "False"} THEN pending ELSE <<>>

Call(op, r) ==
  /\ pc = "body"
  /\ store' = r.store
  /\ nextId' = r.nextId
  /\ pending' = AfterCall(r)
  /\ last' = [op |-> op, out |-> r.out]
  /\ UNCHANGED <<backend, pc, sessions, exc, scope, procVars>>

Create(k, kwargs) == WithinBounds(k, kwargs) /\ Call("create", create(k, kwargs))

GetById(k, id) ==
  /\ id \in IdStrings
  /\ Call("get_by_id",
          Returned(store, nextId,
                   IF get_by_id(store, k, id) = {} THEN "None" ELSE "entity",
                   IF get_by_id(store, k, id) = {} THEN None ELSE id))

Update(k, id, kwargs) ==
  /\ "id" \in DOMAIN kwargs /\ kwargs["id"] # None => kwargs["id"] \in Issued(k)
  /\ Call("update", update(k, id, kwargs))

Delete(k, id) == id \in IdStrings /\ Call("delete", delete(k, id))


\* ---------------------------------------------------------- get_db scope
\* What a scope has done so far: the store when it was entered; how its
\* body ended (raised), the store and the number of staged records at that
\* moment (left, staged); the commit and rollback calls the scope itself
\* made, and whether its commit went through.
Entered(S) ==
  [entered |-> TRUE, entry |-> S, raised |-> FALSE, left |-> S, staged |-> 0,
   commits |-> 0, rollbacks |-> 0, committed |-> FALSE]

NoScope == [Entered([k \in Kinds |-> {}]) EXCEPT !.entered = FALSE]

\* session = get_session(); yield session
GetDbEnter ==
  /\ pc = "idle"
  /\ pc' = "body"
  /\ sessions' = sessions + 1
  /\ pending' = <<>>
  /\ exc' = None
  /\ scope' = Entered(store)
  /\ UNCHANGED <<backend, store, nextId, last, procVars>>

\* The body stages a record directly: db.add(Artwork(**kwargs)).
DirectAdd(kwargs) ==
  /\ pc = "body"
  /\ Len(pending) < MaxPending
  /\ WithinBounds("Artwork", kwargs)
  /\ pending' = Append(pending,
                  [op |-> "add", kind |-> "Artwork", row |-> Row("Artwork", kwargs)])
  /\ UNCHANGED <<backend, store, nextId, pc, last, sessions, exc, scope, procVars>>

\* The body ends without raising: control reaches session.commit().
BodyReturn ==
  /\ pc = "body"
  /\ pc' = "commit"
  /\ scope' = [scope EXCEPT !.left = store, !.staged = Len(pending)]
  /\ UNCHANGED <<backend, store, nextId, pending, last, sessions, exc, procVars>>

\* The body raises (its own error, or one a repository call re-raised):
\* control reaches the except clause.
BodyRaise ==
  /\ pc = "body"
  /\ pc' = "except"
  /\ exc' = "BodyError"
  /\ scope' = [scope EXCEPT !.raised = TRUE, !.left = store,
                             !.staged = Len(pending)]
  /\ UNCHANGED <<backend, store, nextId, pending, last, sessions, procVars>>

\* session.commit() of the scope: it fails on a violated constraint of the
\* staged work, or because the database does (dbFails).
ScopeCommit(dbFails) ==
  /\ pc = "commit"
  /\ LET res == Commit(backend, store, nextId, pending)
     IN IF res.ok /\ ~dbFails
        THEN /\ store' = res.store
             /\ nextId' = res.nextId
             /\ pending' = <<>>
             /\ pc' = "finally"
             /\ exc' = None
             /\ scope' = [scope EXCEPT !.commits = @ + 1, !.committed = TRUE]
        ELSE /\ pc' = "except"
             /\ exc' = "CommitError"
             /\ scope' = [scope EXCEPT !.commits = @ + 1]
             /\ UNCHANGED <<store, nextId, pending>>
  /\ UNCHANGED <<backend, last, sessions, procVars>>

\* An except clause that rolls back but lacks the final `raise`: the error
\* is swallowed.
RollbackAndSwallow(dbFails) ==
  /\ pc = "except"
  /\ pc' = "finally"
  /\ scope' = [scope EXCEPT !.rollbacks = @ + 1]
  /\ exc' = None
  /\ pending' = <<>>
  /\ UNCHANGED <<backend, store, nextId, last, sessions, procVars>>

\* except Exception: session.rollback(); raise.  A rollback that itself
\* raises replaces the exception in flight.
ScopeRollback(dbFails) ==
  /\ pc = "except"
  /\ pc' = "finally"
  /\ scope' = [scope EXCEPT !.rollbacks = @ + 1]
  /\ IF dbFails
     THEN exc' = "RollbackError" /\ UNCHANGED pending
     ELSE exc' = exc /\ pending' = <<>>
  /\ UNCHANGED <<backend, store, nextId, last, sessions, procVars>>

\* A close placed after the try statement instead of in its finally clause:
\* it is not reached while an exception propagates.
CloseUnlessRaising ==
  /\ pc = "finally"
  /\ pc' = "idle"
  /\ sessions' = IF exc = None THEN sessions - 1 ELSE sessions
  /\ pending' = <<>>
  /\ UNCHANGED <<backend, store, nextId, last, exc, scope, procVars>>

\* finally: session.close()
ScopeClose ==
  /\ pc = "finally"
  /\ pc' = "idle"
  /\ sessions' = sessions - 1
  /\ pending' = <<>>
  /\ UNCHANGED <<backend, store, nextId, last, exc, scope, procVars>>

\* ------------------------------------------------------- specification
\* create_sample_data has not been invoked.
NoSample ==
  [step |-> "idle", runs |-> 0, ok |-> FALSE, partial |-> FALSE,
   artwork |-> None, exhibition |-> None, photo |-> None,
   appearance |-> None, first |-> {}]

\* The session factory global before its first assignment.
NoFactory == [id |-> None, bind |-> None]

Threads == {"t1", "t2"}

\* A thread outside get_engine / get_session: entry is the function it
\* called last, local its `engine` local in get_session_maker, returned
\* the engine get_engine returned to it, factory the session factory that
\* made the session get_session returned to it.
ThreadIdle ==
  [pc |-> "idle", entry |-> None, local |-> None, returned |-> None,
   factory |-> NoFactory]

NothingBuilt ==
  [engines |-> 0, factories |-> 0, engineWrites |-> 0, factoryWrites |-> 0]

StepNames == {"test", "setup", "sample_data", "test_crud"}

\* main has not been started.  args are the parsed flags, position runs
\* over the four `if args.all or args.<step>` statements, ran and failed
\* are the steps called and those that returned False.
NoCli ==
  [position |-> "off", args |-> [all |-> FALSE, steps |-> {}],
   success |-> TRUE, ran |-> {}, failed |-> {}, exit |-> None]

\* Neither test_connection nor get_db_info has been called.
NoProbe ==
  [f |-> None, pc |-> "off", calls |-> 0, attempts |-> 0, failure |-> FALSE,
   result |-> None, escaped |-> FALSE]

\* No routine around the repository is running, and the module globals
\* are as at import.
ProcIdle ==
  /\ sample = NoSample
  /\ engine = None
  /\ SessionLocal = NoFactory
  /\ threads = [t \in Threads |-> ThreadIdle]
  /\ built = NothingBuilt
  /\ cli = NoCli
  /\ probe = NoProbe

NoCall == [op |-> "none", out |-> None]

EmptyStore == [k \in Kinds |-> {}]

\* One session, opened by get_session, on which a caller makes repository
\* calls; the tables are empty after init_db.
Init ==
  /\ backend \in Backends
  /\ store = EmptyStore
  /\ nextId = [k \in Kinds |-> 1]
  /\ pending = <<>>
  /\ pc = "body"
  /\ last = NoCall
  /\ sessions = 1
  /\ exc = None
  /\ scope = NoScope
  /\ ProcIdle

\* Calls on the four repositories.
Next ==
  \/ \E k \in Kinds : \E kwargs \in LinkKwargs(k) : Create(k, kwargs)
  \/ \E k \in Kinds : \E id \in IdStrings : GetById(k, id)
  \/ \E k \in Kinds : \E id \in IdStrings : \E kwargs \in LinkKwargs(k) : Update(k, id, kwargs)
  \/ \E k \in Kinds : \E id \in IdStrings : Delete(k, id)

Spec == Init /\ [][Next]_vars

\* Calls on the Artwork repository alone, with every keyword.
NextArtwork ==
  \/ \E kwargs \in ArtworkKwargs : Create("Artwork", kwargs)
  \/ \E id \in IdStrings : GetById("Artwork", id)
  \/ \E id \in IdStrings : \E kwargs \in ArtworkKwargs : Update("Artwork", id, kwargs)
  \/ \E id \in IdStrings : Delete("Artwork", id)

SpecArtwork == Init /\ [][NextArtwork]_vars

\* Whole scopes: no session is open before the first one.
InitScope ==
  /\ backend \in Backends
  /\ store = EmptyStore
  /\ nextId = [k \in Kinds |-> 1]
  /\ pending = <<>>
  /\ pc = "idle"
  /\ last = NoCall
  /\ sessions = 0
  /\ exc = None
  /\ scope = NoScope
  /\ ProcIdle

NextScope ==
  \/ GetDbEnter
  \/ \E kwargs \in ScopeKwargs : DirectAdd(kwargs)
  \/ \E kwargs \in ScopeKwargs : Create("Artwork", kwargs)
  \/ \E id \in IdStrings : \E kwargs \in ScopeKwargs : Update("Artwork", id, kwargs)
  \/ \E id \in IdStrings : Delete("Artwork", id)
  \/ BodyReturn
  \/ BodyRaise
  \/ \E dbFails \in BOOLEAN : ScopeCommit(dbFails)
  \/ \E dbFails \in BOOLEAN : ScopeRollback(dbFails)
  \/ ScopeClose

SpecScope == InitScope /\ [][NextScope]_vars

\* ------------------------------------------------- session scope (get_db)
\* A scope has run to its end: its close returned control to the caller.
ScopeEnded == pc = "idle" /\ scope.entered

\* C1 as the specification states it: after a body that returned normally
\* the pending work is committed, exactly once and without error; after a
\* body that raised, the session is rolled back, nothing is committed
\* afterwards and the caller sees that same error.
C1_AsStated ==
  ScopeEnded =>
    IF scope.raised
    THEN /\ scope.rollbacks = 1
         /\ scope.commits = 0
         /\ store = scope.left
         /\ exc = "BodyError"
    ELSE /\ scope.commits = 1
         /\ scope.committed
         /\ exc = None

\* C1, amended: a body that returned normally is followed by exactly one
\* commit call; when it succeeds the staged records are persisted, when it
\* fails the session is rolled back, nothing is persisted and the caller
\* sees the commit's error.  A body that raised is followed by one rollback
\* and no commit, the store stays as the body left it, and the caller sees
\* the body's error.  On both error paths a rollback that itself fails
\* raises its own error in place of the original one.
C1_ScopeOutcome ==
  ScopeEnded =>
    IF scope.raised
    THEN /\ scope.rollbacks = 1
         /\ scope.commits = 0
         /\ ~scope.committed
         /\ store = scope.left
         /\ exc \in {"BodyError", "RollbackError"}
    ELSE /\ scope.commits = 1
         /\ IF scope.committed
            THEN /\ scope.rollbacks = 0
                 /\ exc = None
                 /\ RowCount(store) = RowCount(scope.left) + scope.staged
            ELSE /\ scope.rollbacks = 1
                 /\ store = scope.left
                 /\ exc \in {"CommitError", "RollbackError"}

\* A body staged a record and raised; the scope rolled back and re-raised.
C1_Witness ==
  /\ ScopeEnded
  /\ scope.raised
  /\ scope.staged = 1
  /\ scope.rollbacks = 1
  /\ exc = "BodyError"

\* C2 as the specification states it: when a scope's body raised, nothing
\* written inside the scope, repository writes included, is persisted: the
\* store is the one the scope was entered with.
C2_NothingPersisted == (ScopeEnded /\ scope.raised) => store = scope.entry

\* C3: the session of a scope is closed on every exit path (normal exit,
\* error in the body, failed commit, failed rollback), and a scope has
\* exactly one session while it runs.
C3_SessionClosed == sessions = IF pc = "idle" THEN 0 ELSE 1

\* A scope whose rollback failed has ended with its session closed.
C3_Witness == ScopeEnded /\ exc = "RollbackError" /\ sessions = 0

\* ------------------------------------------------------ Artwork repository
Artworks == store["Artwork"]

\* kwargs names a catalog number that a stored artwork already holds.
DuplicatesCatalogNumber(kwargs) ==
  /\ "catalog_number" \in DOMAIN kwargs
  /\ kwargs["catalog_number"] # None
  /\ \E a \in Artworks : a.catalog_number = kwargs["catalog_number"]

\* C4: no two stored artworks share a non-null catalog_number, whatever
\* creates, updates and deletes were made; a create that would duplicate a
\* stored non-null catalog number raises and leaves the store, and with it
\* the artwork holding that number, unchanged.
C4_CatalogNumberUnique ==
  /\ \A a1, a2 \in Artworks :
       (a1.catalog_number # None /\ a1.catalog_number = a2.catalog_number)
         => a1 = a2
  /\ \A kwargs \in ArtworkKwargs :
       DuplicatesCatalogNumber(kwargs) =>
         /\ create("Artwork", kwargs).out = "raise"
         /\ create("Artwork", kwargs).store = store

\* Two artworks are stored, one holding a catalog number and one holding
\* none, and the last create raised.
C4_Witness ==
  /\ last = [op |-> "create", out |-> "raise"]
  /\ \E a1, a2 \in Artworks :
       a1.catalog_number # None /\ a2.catalog_number = None
  /\ \E kwargs \in ArtworkKwargs : DuplicatesCatalogNumber(kwargs)

\* The artwork `a` after the keywords that are attributes were set on it.
WithFields(a, kwargs) ==
  [id |-> IF "id" \in DOMAIN kwargs THEN kwargs["id"] ELSE a.id,
   title |-> IF "title" \in DOMAIN kwargs THEN kwargs["title"] ELSE a.title,
   catalog_number |-> IF "catalog_number" \in DOMAIN kwargs
                      THEN kwargs["catalog_number"] ELSE a.catalog_number]

\* Setting the keywords on `a` changes it into a row that the schema
\* rejects: a null identifier or title, or an identifier or a non-null
\* catalog number that another artwork holds.
RejectedFields(a, kwargs) ==
  LET new == WithFields(a, kwargs)
  IN /\ new # a
     /\ \/ new.id = None
        \/ new.title = None
        \/ \E o \in Artworks \ {a} :
             \/ o.id = new.id
             \/ new.catalog_number # None /\ o.catalog_number = new.catalog_number

Exhibitions == store["Exhibition"]
Photos == store["InstallationPhoto"]
Appearances == store["ArtworkAppearance"]

PhotosOf(id) == {p \in Photos : p.exhibition_id = id}

AppearancesIn(photos) ==
  {x \in Appearances : \E p \in photos : x.photo_id = p.id}

\* C5: deleting an exhibition removes it, every photo whose exhibition_id
\* is that exhibition and every appearance whose photo_id is one of those
\* photos; get_by_id finds none of them afterwards, and the artworks are
\* all still stored.
C5_ExhibitionCascade ==
  \A e \in Exhibitions :
    LET r == delete("Exhibition", e.id)
    IN /\ r.out = "True"
       /\ get_by_id(r.store, "Exhibition", e.id) = {}
       /\ \A p \in PhotosOf(e.id) :
            get_by_id(r.store, "InstallationPhoto", p.id) = {}
       /\ \A x \in AppearancesIn(PhotosOf(e.id)) :
            get_by_id(r.store, "ArtworkAppearance", x.id) = {}
       /\ r.store["Artwork"] = Artworks

\* An exhibition with a photo that shows a stored artwork: its delete
\* takes three of the four stored rows.
C5_Witness ==
  \E e \in Exhibitions : \E x \in AppearancesIn(PhotosOf(e.id)) :
    /\ \E a \in Artworks : a.id = x.artwork_id
    /\ RowCount(delete("Exhibition", e.id).store) = RowCount(store) - 3
    /\ delete("Exhibition", e.id).store["Artwork"] = Artworks

\* C6 as the specification states it: every appearance references a stored
\* artwork and a stored photo, and every photo a stored exhibition.
C6_ReferentialIntegrity ==
  /\ \A x \in Appearances :
       /\ \E a \in Artworks : a.id = x.artwork_id
       /\ \E p \in Photos : p.id = x.photo_id
  /\ \A p \in Photos : \E e \in Exhibitions : e.id = p.exhibition_id

\* The keywords of a create violate the schema: a foreign key names no
\* stored parent, a required field is missing, or a unique value is taken.
ViolatesSchema(k, kwargs) ==
  \/ \E fk \in ForeignKeys(k) :
       /\ fk[1] \in DOMAIN kwargs
       /\ \A parent \in store[fk[2]] : parent.id # kwargs[fk[1]]
  \/ \E c \in Required(k) \ {"id"} : c \notin DOMAIN kwargs
  \/ k = "Artwork" /\ DuplicatesCatalogNumber(kwargs)

NotStored(k, id) == \A r \in store[k] : r.id # id

\* C9: when no record of the kind has the id, get_by_id returns the absent
\* value, update returns the absent value and delete returns false; none
\* raises and none changes a stored record.
C9_NotFound ==
  \A k \in Kinds : \A id \in IdStrings :
    NotStored(k, id) =>
      /\ get_by_id(store, k, id) = {}
      /\ \A kwargs \in LinkKwargs(k) :
           /\ update(k, id, kwargs).out = "None"
           /\ update(k, id, kwargs).store = store
      /\ delete(k, id).out = "False"
      /\ delete(k, id).store = store

\* An update of an identifier that is not stored returned the absent value
\* while other records of that kind are stored.
C9_Witness ==
  /\ last = [op |-> "update", out |-> "None"]
  /\ \E k \in Kinds : \E id \in IdStrings :
       NotStored(k, id) /\ store[k] # {}

\* The rows a delete of record id of kind k has to remove: the record,
\* the appearances of an artwork or a photo, the photos of an exhibition
\* and their appearances.
Removed(k, id) ==
  [k2 \in Kinds |->
     CASE k2 = k -> {r \in store[k] : r.id = id}
       [] k2 = "InstallationPhoto" /\ k = "Exhibition" -> PhotosOf(id)
       [] k2 = "ArtworkAppearance" /\ k = "Exhibition" ->
            AppearancesIn(PhotosOf(id))
       [] k2 = "ArtworkAppearance" /\ k = "InstallationPhoto" ->
            {x \in Appearances : x.photo_id = id}
       [] k2 = "ArtworkAppearance" /\ k = "Artwork" ->
            {x \in Appearances : x.artwork_id = id}
       [] OTHER -> {}]

\* C10: delete returns true exactly when a record with the id was stored;
\* after a true result get_by_id finds no such record, the rows removed
\* are exactly the record and its cascade dependents, and every other row
\* is unchanged; after a false result nothing changed.
C10_DeleteEffect ==
  \A k \in Kinds : \A id \in IdStrings :
    LET r == delete(k, id)
    IN /\ r.out \in {"True", "False"}
       /\ r.out = "True" <=> ~NotStored(k, id)
       /\ r.out = "True" =>
            /\ get_by_id(r.store, k, id) = {}
            /\ \A k2 \in Kinds : r.store[k2] = store[k2] \ Removed(k, id)[k2]
       /\ r.out = "False" => r.store = store

\* A delete succeeded, and a stored artwork has an appearance that its own
\* delete would take along while another row stays.
C10_Witness ==
  /\ last = [op |-> "delete", out |-> "True"]
  /\ \E a \in Artworks :
       /\ Removed("Artwork", a.id)["ArtworkAppearance"] # {}
       /\ RowCount(delete("Artwork", a.id).store) > 0

\* ------------------------------------------------------------ round trip
\* Every field set of at most MaxKwargs columns of kind k.
FieldSets(k) == KwargsOver(Columns(k))

\* A field set the schema accepts: the required fields are there, the
\* foreign keys name stored parents, the catalog number is free, and an
\* identifier passed by the caller is one that was issued and is not stored.
ValidFields(k, kwargs) ==
  /\ ~ViolatesSchema(k, kwargs)
  /\ \A c \in Required(k) \ {"id"} : kwargs[c] # None
  /\ "id" \in DOMAIN kwargs /\ kwargs["id"] # None =>
       kwargs["id"] \in Issued(k) /\ NotStored(k, kwargs["id"])

\* The default a column holds when create is given no value for it.
DefaultOf(k, c, id) ==
  IF c = "id" THEN id
  ELSE IF c \in {"processed", "verified"} THEN "False"
  ELSE None

Confidences == {0, 5, 7, 9}

StatIds == {"1", "2", "3"}

\* An appearance row with its matching_confidence column.
StatRow(id, verified, confidence) ==
  [id |-> id, artwork_id |-> "1", photo_id |-> "1", verified |-> verified,
   matching_confidence |-> confidence]

RECURSIVE GCD(_, _)
GCD(a, b) == IF b = 0 THEN a ELSE GCD(b, a % b)

\* The number n / d (d > 0), in lowest terms.
Fraction(n, d) == [num |-> n \div GCD(n, d), den |-> d \div GCD(n, d)]

Zero == Fraction(0, 1)

\* The column matching_confidence of a row; 0 where the rows of a
\* specification do not keep the column.
matching_confidence(x) ==
  IF "matching_confidence" \in DOMAIN x THEN x.matching_confidence ELSE 0

RECURSIVE SumConfidence(_)
SumConfidence(rows) ==
  IF rows = {} THEN 0
  ELSE LET x == CHOOSE x \in rows : TRUE
       IN matching_confidence(x) + SumConfidence(rows \ {x})

\* SELECT avg(matching_confidence): no value (the empty set) over no rows.
Avg(rows) ==
  IF rows = {} THEN {}
  ELSE {Fraction(SumConfidence(rows), Cardinality(rows))}

\* The aggregate with its average taken over the verified rows only.
statistics_of_verified(S) ==
  LET rows == {x \in S["ArtworkAppearance"] : x.verified = "True"}
      total == Cardinality(S["ArtworkAppearance"])
      verified == Cardinality(rows)
  IN [total_appearances |-> total,
      verified_appearances |-> verified,
      unverified_appearances |-> total - verified,
      verification_rate |-> IF total > 0 THEN Fraction(verified, total) ELSE Zero,
      average_confidence |-> IF Avg(rows) \in {{}, {Zero}} THEN Zero
                             ELSE CHOOSE q \in Avg(rows) : TRUE]

\* ArtworkAppearanceCRUD.get_statistics(db): the dictionary it returns.
statistics(S) ==
  LET total == Cardinality(S["ArtworkAppearance"])
      verified ==
        Cardinality({x \in S["ArtworkAppearance"] : x.verified = "True"})
      avg_confidence == Avg(S["ArtworkAppearance"])
  IN [total_appearances |-> total,
      verified_appearances |-> verified,
      unverified_appearances |-> total - verified,
      verification_rate |-> IF total > 0 THEN Fraction(verified, total) ELSE Zero,
      average_confidence |-> IF avg_confidence \in {{}, {Zero}} THEN Zero
                             ELSE CHOOSE q \in avg_confidence : TRUE]

get_statistics == Returned(store, nextId, statistics(store), None)

\* A query: it returns a value and neither commits nor rolls back.
Query(op, r) ==
  /\ pc = "body"
  /\ store' = r.store
  /\ nextId' = r.nextId
  /\ last' = [op |-> op, out |-> r.out]
  /\ UNCHANGED <<backend, pending, pc, sessions, exc, scope, procVars>>

GetStatistics == pc = "body" /\ Query("get_statistics", get_statistics)

\* One artwork in one photo of one exhibition, and any table of up to
\* three appearances of it.
InitStatistics ==
  /\ backend \in Backends
  /\ \E ids \in SUBSET StatIds :
       \E f \in [ids -> [verified : {"True", "False", None},
                         matching_confidence : Confidences]] :
         store = [Artwork |-> {[id |-> "1", title |-> "t1", catalog_number |-> None]},
                  Exhibition |-> {[id |-> "1", name |-> "n1"]},
                  InstallationPhoto |->
                    {[id |-> "1", exhibition_id |-> "1", processed |-> "False"]},
                  ArtworkAppearance |->
                    {StatRow(id, f[id].verified, f[id].matching_confidence) :
                       id \in ids}]
  /\ nextId = [k \in Kinds |-> IF k = "ArtworkAppearance" THEN 4 ELSE 2]
  /\ pending = <<>>
  /\ pc = "body"
  /\ last = NoCall
  /\ sessions = 1
  /\ exc = None
  /\ scope = NoScope
  /\ ProcIdle

NextStatistics == GetStatistics

SpecStatistics == InitStatistics /\ [][NextStatistics]_vars

\* C12: get_statistics returns total = the number of appearances,
\* verified = the number whose verified flag is true, unverified = total -
\* verified, verification_rate = verified / total (0 over no rows),
\* average_confidence = the mean of matching_confidence (0 over no rows);
\* it returns on the empty table and changes no record.
C12_Statistics ==
  LET r == get_statistics
      s == r.out
      n == Cardinality(Appearances)
      v == Cardinality({x \in Appearances : x.verified = "True"})
  IN /\ r.store = store
     /\ s.total_appearances = n
     /\ s.verified_appearances = v
     /\ s.unverified_appearances = n - v
     /\ s.verified_appearances + s.unverified_appearances = s.total_appearances
     /\ s.verification_rate.den > 0 /\ s.average_confidence.den > 0
     /\ IF n > 0
        THEN /\ s.verification_rate.num * n = v * s.verification_rate.den
             /\ s.average_confidence.num * n =
                  SumConfidence(Appearances) * s.average_confidence.den
        ELSE s.verification_rate = Zero /\ s.average_confidence = Zero

\* get_statistics returned over verified flags {true, false, true} with
\* confidences {0.9, 0.5, 0.7}: 3, 2, 1, 2/3 and 0.7.
C12_Witness ==
  /\ Appearances = {StatRow("1", "True", 9), StatRow("2", "False", 5),
                    StatRow("3", "True", 7)}
  /\ last.op = "get_statistics"
  /\ last.out = [total_appearances |-> 3, verified_appearances |-> 2,
                 unverified_appearances |-> 1,
                 verification_rate |-> [num |-> 2, den |-> 3],
                 average_confidence |-> [num |-> 7, den |-> 1]]

\* ----------------------------------------------------------- sample data
\* The exact-match lookups of create_sample_data.
get_by_catalog_number(S, c) == {a \in S["Artwork"] : a.catalog_number = c}

\* A lookup that never matches.
search_nothing(S, name) == {}

\* search_by_name(db, name, exact=True)
search_by_name_exact(S, name) == {e \in S["Exhibition"] : e.name = name}

get_by_exhibition(S, id) == {p \in S["InstallationPhoto"] : p.exhibition_id = id}

get_by_photo(S, id) == {x \in S["ArtworkAppearance"] : x.photo_id = id}

\* with get_db() as db: the routine opens its session scope.
SampleBegin ==
  /\ sample.step = "idle"
  /\ sample.runs < MaxRuns
  /\ pc = "idle"
  /\ pc' = "body"
  /\ sessions' = sessions + 1
  /\ sample' = [sample EXCEPT !.step = "artwork", !.ok = FALSE,
                              !.artwork = None, !.exhibition = None,
                              !.photo = None, !.appearance = None]
  /\ UNCHANGED <<backend, store, nextId, pending, last, exc, scope>>
  /\ UNCHANGED <<singletonVars, cli, probe>>

\* except Exception: return False, after get_db rolled back and closed.
SampleRaise ==
  /\ pc' = "idle"
  /\ sessions' = sessions - 1
  /\ sample' = [sample EXCEPT !.step = "idle", !.ok = FALSE, !.runs = @ + 1,
                              !.partial = @ \/ RowCount(store) \in 1..3]
  /\ UNCHANGED <<backend, store, nextId, pending, last, exc, scope>>
  /\ UNCHANGED <<singletonVars, cli, probe>>

\* One "check if it already exists, else create" step: `found` is what the
\* lookup returned, `field` the local that takes the entity's identifier.
SampleStep(step, found, k, kwargs, field, next, dbFails) ==
  /\ sample.step = step
  /\ LET r == create(k, kwargs)
     IN IF dbFails \/ (found = {} /\ r.out = "raise")
        THEN SampleRaise
        ELSE /\ store' = IF found = {} THEN r.store ELSE store
             /\ nextId' = IF found = {} THEN r.nextId ELSE nextId
             /\ sample' = [sample EXCEPT
                             !.step = next,
                             ![field] = IF found = {} THEN r.ret
                                        ELSE (CHOOSE x \in found : TRUE).id]
             /\ UNCHANGED <<backend, pending, pc, last, sessions, exc, scope>>
             /\ UNCHANGED <<singletonVars, cli, probe>>

SampleArtwork(dbFails) ==
  SampleStep("artwork", get_by_catalog_number(store, "c1"), "Artwork",
             [title |-> "t1", catalog_number |-> "c1"], "artwork",
             "exhibition", dbFails)

SampleExhibition(dbFails) ==
  SampleStep("exhibition", search_by_name_exact(store, "n1"), "Exhibition",
             [name |-> "n1"], "exhibition", "photo", dbFails)

\* Every photo this routine stores carries the sample file name, the one
\* the loop over get_by_exhibition looks for.
SamplePhoto(dbFails) ==
  SampleStep("photo", get_by_exhibition(store, sample.exhibition),
             "InstallationPhoto", [exhibition_id |-> sample.exhibition],
             "photo", "appearance", dbFails)

SampleAppearance(dbFails) ==
  SampleStep("appearance",
             {x \in get_by_photo(store, sample.photo) :
                x.artwork_id = sample.artwork},
             "ArtworkAppearance",
             [artwork_id |-> sample.artwork, photo_id |-> sample.photo],
             "appearance", "return", dbFails)

\* return True: the scope commits (nothing is pending) and closes; a
\* commit that fails lands in the routine's except clause.
SampleReturn(dbFails) ==
  /\ sample.step = "return"
  /\ IF dbFails
     THEN SampleRaise
     ELSE /\ pc' = "idle"
          /\ sessions' = sessions - 1
          /\ sample' = [sample EXCEPT
                          !.step = "idle", !.ok = TRUE, !.runs = @ + 1,
                          !.first = IF @ = {} THEN {store} ELSE @]
          /\ UNCHANGED <<backend, store, nextId, pending, last, exc, scope>>
          /\ UNCHANGED <<singletonVars, cli, probe>>

NextSample ==
  \/ SampleBegin
  \/ \E dbFails \in BOOLEAN : SampleArtwork(dbFails)
  \/ \E dbFails \in BOOLEAN : SampleExhibition(dbFails)
  \/ \E dbFails \in BOOLEAN : SamplePhoto(dbFails)
  \/ \E dbFails \in BOOLEAN : SampleAppearance(dbFails)
  \/ \E dbFails \in BOOLEAN : SampleReturn(dbFails)

\* Invocations of create_sample_data on the empty schema.
SpecSample == InitScope /\ [][NextSample]_vars

\* C13: however often create_sample_data has run, no table ever holds a
\* second row, and after every invocation that succeeded, earlier failed
\* ones or not, the store holds exactly one artwork, one exhibition, one
\* photo of that exhibition and one appearance of the artwork in the
\* photo: the store the first successful invocation left.
C13_SampleDataIdempotent ==
  /\ \A k \in Kinds : Cardinality(store[k]) <= 1
  /\ (sample.step = "idle" /\ sample.ok) =>
       /\ \A k \in Kinds : Cardinality(store[k]) = 1
       /\ \A p \in Photos : \E e \in Exhibitions : p.exhibition_id = e.id
       /\ \A x \in Appearances :
            /\ \E a \in Artworks : x.artwork_id = a.id
            /\ \E p \in Photos : x.photo_id = p.id
       /\ sample.first = {store}

\* A third invocation succeeded after one that failed part-way.
C13_Witness ==
  /\ sample.step = "idle"
  /\ sample.ok
  /\ sample.partial
  /\ sample.runs > 2
  /\ sample.appearance # None
  /\ RowCount(store) = 4

\* ------------------------------------------- engine and factory singleton
\* Everything but the globals, the threads and the construction counts.
repositoryVars ==
  <<backend, store, nextId, pending, pc, last, sessions, exc, scope, sample,
    cli, probe>>

\* Thread t calls get_engine() (as init_db does) or get_session().
CallEntry(t, f) ==
  /\ threads[t].pc = "idle"
  /\ threads' = [threads EXCEPT ![t] =
       [ThreadIdle EXCEPT !.entry = f,
                          !.pc = IF f = "get_engine" THEN "engine_check"
                                 ELSE "factory_check"]]
  /\ UNCHANGED <<repositoryVars, engine, SessionLocal, built>>

\* get_session_maker: if SessionLocal is None
FactoryCheck(t) ==
  /\ threads[t].pc = "factory_check"
  /\ threads' = [threads EXCEPT ![t].pc =
       IF SessionLocal = NoFactory THEN "engine_check" ELSE "factory_return"]
  /\ UNCHANGED <<repositoryVars, engine, SessionLocal, built>>

\* get_engine: if engine is None
EngineCheck(t) ==
  /\ threads[t].pc = "engine_check"
  /\ threads' = [threads EXCEPT ![t].pc =
       IF engine = None THEN "engine_create" ELSE "engine_return"]
  /\ UNCHANGED <<repositoryVars, engine, SessionLocal, built>>

\* get_engine: engine = create_engine(...)
EngineCreate(t) ==
  /\ threads[t].pc = "engine_create"
  /\ engine' = ToString(built.engines + 1)
  /\ built' = [built EXCEPT !.engines = @ + 1, !.engineWrites = @ + 1]
  /\ threads' = [threads EXCEPT ![t].pc = "engine_return"]
  /\ UNCHANGED <<repositoryVars, SessionLocal>>

\* get_engine: return engine (the global, as it is now), to the caller or
\* into the local of get_session_maker.
EngineReturn(t) ==
  /\ threads[t].pc = "engine_return"
  /\ threads' = [threads EXCEPT ![t] =
       IF @.entry = "get_engine"
       THEN [@ EXCEPT !.pc = "idle", !.returned = engine]
       ELSE [@ EXCEPT !.pc = "factory_create", !.local = engine]]
  /\ UNCHANGED <<repositoryVars, engine, SessionLocal, built>>

\* get_session_maker: SessionLocal = sessionmaker(..., bind=engine)
FactoryCreate(t) ==
  /\ threads[t].pc = "factory_create"
  /\ SessionLocal' = [id |-> ToString(built.factories + 1),
                      bind |-> threads[t].local]
  /\ built' = [built EXCEPT !.factories = @ + 1, !.factoryWrites = @ + 1]
  /\ threads' = [threads EXCEPT ![t].pc = "factory_return"]
  /\ UNCHANGED <<repositoryVars, engine>>

\* get_session_maker: return SessionLocal; get_session: return
\* session_maker(), a session of that factory.
FactoryReturn(t) ==
  /\ threads[t].pc = "factory_return"
  /\ threads' = [threads EXCEPT ![t] =
       [@ EXCEPT !.pc = "idle", !.factory = SessionLocal]]
  /\ UNCHANGED <<repositoryVars, engine, SessionLocal, built>>

NextSingleton ==
  \E t \in Threads :
    \/ \E f \in {"get_engine", "get_session"} : CallEntry(t, f)
    \/ FactoryCheck(t)
    \/ EngineCheck(t)
    \/ EngineCreate(t)
    \/ EngineReturn(t)
    \/ FactoryCreate(t)
    \/ FactoryReturn(t)

\* Threads of one process calling get_engine and get_session from import.
SpecSingleton == InitScope /\ [][NextSingleton]_vars

\* C14 as the specification states it: under every interleaving at most
\* one engine and at most one session factory are constructed, neither
\* global is assigned a second time, every caller that has returned was
\* given the engine and the factory the globals hold, and the factory is
\* bound to that engine.
C14_Singleton ==
  /\ built.engines <= 1
  /\ built.factories <= 1
  /\ built.engineWrites <= 1
  /\ built.factoryWrites <= 1
  /\ \A t \in Threads :
       /\ threads[t].returned \in {None, engine}
       /\ threads[t].factory \in {NoFactory, SessionLocal}
  /\ SessionLocal.bind \in {None, engine}

\* ------------------------------------------------------------ identifiers
\* The keyword sets a caller of the Artwork repository passes: an
\* identifier among them is one that uuid4 has issued.
CallerKwargs ==
  {kwargs \in ArtworkKwargs :
     "id" \in DOMAIN kwargs /\ kwargs["id"] # None => kwargs["id"] \in Issued("Artwork")}

\* C15 as the specification states it: an update, whatever its keywords,
\* leaves the entity under the identifier it was created with, so that
\* get_by_id with that identifier still finds it.
C15_IdentifierImmutable ==
  \A a \in Artworks : \A kwargs \in CallerKwargs :
    LET r == update("Artwork", a.id, kwargs)
    IN r.out = "entity" =>
         /\ r.ret = a.id
         /\ get_by_id(r.store, "Artwork", a.id) # {}

\* C16 as the specification states it: a create never returns an entity
\* that carries an identifier some entity has carried before, stored or
\* deleted (the identifiers issued so far).
C16_IdentifierNotReused ==
  \A kwargs \in CallerKwargs :
    LET r == create("Artwork", kwargs)
    IN r.out = "entity" => r.ret \notin Issued("Artwork")

\* ------------------------------------------------- setup/diagnostic CLI
\* Everything main and its flags leave alone: the four step functions are
\* modelled by the boolean each returns (each catches Exception itself).
cliFrame ==
  <<backend, store, nextId, pending, pc, last, sessions, exc, scope, sample,
    singletonVars, probe>>

\* The `if` statement that follows the one for step s.
Following(s) ==
  CASE s = "test" -> "setup"
    [] s = "setup" -> "sample_data"
    [] s = "sample_data" -> "test_crud"
    [] s = "test_crud" -> "exit"

\* args.all or args.<step>
Requested(s) == cli.args.all \/ s \in cli.args.steps

\* args = parser.parse_args(); success = True
Main(all, steps) ==
  /\ cli.position = "off"
  /\ cli' = [NoCli EXCEPT !.args = [all |-> all, steps |-> steps],
                          !.position = "test"]
  /\ UNCHANGED cliFrame

\* success = success and step(): a step after a failed one is not called.
RunStepShortCircuit(ok) ==
  /\ cli.position \in StepNames
  /\ Requested(cli.position)
  /\ cli' = IF cli.success
            THEN [cli EXCEPT !.success = ok,
                             !.ran = @ \cup {cli.position},
                             !.failed = IF ok THEN @ ELSE @ \cup {cli.position},
                             !.position = Following(@)]
            ELSE [cli EXCEPT !.position = Following(@)]
  /\ UNCHANGED cliFrame

\* success &= step(): the step is called, and returns ok.
RunStep(ok) ==
  /\ cli.position \in StepNames
  /\ Requested(cli.position)
  /\ cli' = [cli EXCEPT !.success = @ /\ ok,
                        !.ran = @ \cup {cli.position},
                        !.failed = IF ok THEN @ ELSE @ \cup {cli.position},
                        !.position = Following(@)]
  /\ UNCHANGED cliFrame

\* The step was not requested.
SkipStep ==
  /\ cli.position \in StepNames
  /\ ~Requested(cli.position)
  /\ cli' = [cli EXCEPT !.position = Following(@)]
  /\ UNCHANGED cliFrame

\* sys.exit(0) if success else sys.exit(1)
Exit ==
  /\ cli.position = "exit"
  /\ cli' = [cli EXCEPT !.position = "exited",
                        !.exit = IF cli.success THEN "0" ELSE "1"]
  /\ UNCHANGED cliFrame

NextCli ==
  \/ \E all \in BOOLEAN : \E steps \in SUBSET StepNames : Main(all, steps)
  \/ \E ok \in BOOLEAN : RunStep(ok)
  \/ SkipStep
  \/ Exit

\* One run of the command line, with any flags.
SpecCli == InitScope /\ [][NextCli]_vars

\* C17: when main has exited, every requested step (all four under --all)
\* was called, whatever the earlier steps returned, and the exit code is
\* 0 exactly when none of them returned False and 1 otherwise.
C17_CliExitCode ==
  cli.position = "exited" =>
    LET requested == IF cli.args.all THEN StepNames ELSE cli.args.steps
    IN /\ cli.ran = requested
       /\ cli.failed \subseteq requested
       /\ cli.exit \in {"0", "1"}
       /\ cli.exit = "0" <=> cli.failed = {}

\* The connection test failed, the CRUD test was still called, and main
\* exited with 1.
C17_Witness ==
  /\ cli.position = "exited"
  /\ ~cli.args.all
  /\ "test" \in cli.failed
  /\ "test_crud" \in cli.ran \ cli.failed
  /\ cli.exit = "1"

\* ------------------------------------------------------ connectivity probe
Probes == {"test_connection", "get_db_info"}

\* What the probes leave alone besides the session scope.
probeFrame == <<backend, store, nextId, last, sample, singletonVars, cli>>

\* test_connection() or get_db_info() is called; test_database_connection
\* calls one after the other.
ProbeCall(f) ==
  /\ probe.pc \in {"off", "done"}
  /\ probe.calls < MaxProbes
  /\ pc = "idle"
  /\ probe' = [NoProbe EXCEPT !.f = f, !.pc = "try", !.calls = probe.calls + 1]
  /\ scope' = NoScope
  /\ exc' = None
  /\ UNCHANGED <<probeFrame, pending, pc, sessions>>

\* get_engine() or get_session() raises: no session is opened, and the
\* error reaches the probe's except clause.
ProbeNoSession ==
  /\ probe.pc = "try"
  /\ pc = "idle"
  /\ ~scope.entered
  /\ probe' = [probe EXCEPT !.pc = "except", !.attempts = @ + 1,
                            !.failure = TRUE]
  /\ exc' = "ConnectError"
  /\ UNCHANGED <<probeFrame, pending, pc, sessions, scope>>

\* with get_db() as db: the probe's session scope is entered.
ProbeEnter ==
  /\ probe.pc = "try"
  /\ pc = "idle"
  /\ ~scope.entered
  /\ probe' = [probe EXCEPT !.attempts = @ + 1]
  /\ pc' = "body"
  /\ sessions' = sessions + 1
  /\ pending' = <<>>
  /\ exc' = None
  /\ scope' = Entered(store)
  /\ UNCHANGED probeFrame

\* The scope has ended: control is after the with statement, or in the
\* probe's except clause when the scope raised.
ProbeScopeLeft ==
  /\ probe.pc = "try"
  /\ ScopeEnded
  /\ probe' = IF exc = None
              THEN [probe EXCEPT !.pc = "return"]
              ELSE [probe EXCEPT !.pc = "except", !.failure = TRUE]
  /\ UNCHANGED <<probeFrame, pending, pc, sessions, scope, exc>>

\* return True / return the info dictionary
ProbeReturn ==
  /\ probe.pc = "return"
  /\ probe' = [probe EXCEPT
                 !.pc = "done",
                 !.result = IF probe.f = "test_connection" THEN "True"
                            ELSE "info"]
  /\ UNCHANGED <<probeFrame, pending, pc, sessions, scope, exc>>

\* A probe without its except clause: the error leaves the function.
ProbeUncaught ==
  /\ probe.pc = "except"
  /\ probe' = [probe EXCEPT !.pc = "done", !.escaped = TRUE]
  /\ UNCHANGED <<probeFrame, pending, pc, sessions, scope, exc>>

\* except Exception: return False / return {"error": str(e)}
ProbeExcept ==
  /\ probe.pc = "except"
  /\ probe' = [probe EXCEPT
                 !.pc = "done",
                 !.result = IF probe.f = "test_connection" THEN "False"
                            ELSE "error"]
  /\ UNCHANGED <<probeFrame, pending, pc, sessions, scope, exc>>

\* The probe's scope runs as every get_db scope does; its body is the
\* probe query, which returns or raises.
NextProbe ==
  \/ \E f \in Probes : ProbeCall(f)
  \/ ProbeNoSession
  \/ ProbeEnter
  \/ BodyReturn
  \/ BodyRaise
  \/ \E dbFails \in BOOLEAN : ScopeCommit(dbFails)
  \/ \E dbFails \in BOOLEAN : ScopeRollback(dbFails)
  \/ ScopeClose
  \/ ProbeScopeLeft
  \/ ProbeReturn
  \/ ProbeExcept

SpecProbe == InitScope /\ [][NextProbe]_vars

\* C18: when a probe has returned, no error has left it; after a failure
\* (no session, failed query, failed commit or rollback) test_connection
\* returned False and get_db_info a record with an error entry, and True
\* or the info record otherwise; it made one attempt, and no session is
\* left open.
C18_ProbeContainsFailure ==
  /\ ~probe.escaped
  /\ probe.pc = "done" =>
       /\ probe.result =
            IF probe.f = "test_connection"
            THEN (IF probe.failure THEN "False" ELSE "True")
            ELSE (IF probe.failure THEN "error" ELSE "info")
       /\ probe.failure <=> exc # None
       /\ probe.attempts = 1
       /\ sessions = 0

\* get_db_info returned its error record after the probe query failed
\* and the rollback failed too; the session it opened is closed.
C18_Witness ==
  /\ probe.pc = "done"
  /\ probe.f = "get_db_info"
  /\ probe.result = "error"
  /\ scope.entered /\ scope.raised
  /\ exc = "RollbackError"
  /\ sessions = 0

\* ------------------------------------------------------ dimension search
\* Widths and heights in centimetres; bounds a caller passes.
DimValues == {0, 1}

\* A nullable Float column or an optional float argument: no value (NULL,
\* None) is the empty set, the value v is {v}.
NoValue == {}

Optional(values) == {NoValue} \cup {{v} : v \in values}

DimRow(id, width, height) ==
  [id |-> id, title |-> "t1", catalog_number |-> None,
   width |-> width, height |-> height]

\* `bound` tested by truth value: 0 counts as omitted.
is_truthy(bound) == bound # NoValue /\ bound # {0}

\* `bound is not None`
is_not_none(bound) == bound # NoValue

\* column > bound: the comparison without its boundary.
Greater(column, bound) == \E x \in column : \E y \in bound : x > y

\* column >= bound and column <= bound in a WHERE clause: not true of a
\* NULL column.
GreaterOrEqual(column, bound) == \E x \in column : \E y \in bound : x >= y

LessOrEqual(column, bound) == \E x \in column : \E y \in bound : x <= y

\* ArtworkCRUD.search_by_dimensions(db, min_width, max_width, min_height,
\* max_height): query.all() after one filter per bound that is not None.
search_by_dimensions(S, min_width, max_width, min_height, max_height) ==
  LET query == S["Artwork"]
      q1 == IF is_not_none(min_width)
            THEN {a \in query : GreaterOrEqual(a.width, min_width)} ELSE query
      q2 == IF is_not_none(max_width)
            THEN {a \in q1 : LessOrEqual(a.width, max_width)} ELSE q1
      q3 == IF is_not_none(min_height)
            THEN {a \in q2 : GreaterOrEqual(a.height, min_height)} ELSE q2
      q4 == IF is_not_none(max_height)
            THEN {a \in q3 : LessOrEqual(a.height, max_height)} ELSE q3
  IN q4

DimBounds ==
  [min_width : Optional(DimValues), max_width : Optional(DimValues),
   min_height : Optional(DimValues), max_height : Optional(DimValues)]

SearchByDimensions ==
  /\ pc = "body"
  /\ \E b \in DimBounds :
       Query("search_by_dimensions",
             Returned(store, nextId,
                      [args |-> b,
                       rows |-> search_by_dimensions(store, b.min_width,
                                  b.max_width, b.min_height, b.max_height)],
                      None))

\* Any table of up to two artworks, each dimension a value or NULL.
InitDimensions ==
  /\ backend \in Backends
  /\ \E ids \in SUBSET IdStrings :
       \E f \in [ids -> [width : Optional(DimValues),
                         height : Optional(DimValues)]] :
         store = [Artwork |-> {DimRow(id, f[id].width, f[id].height) : id \in ids},
                  Exhibition |-> {}, InstallationPhoto |-> {},
                  ArtworkAppearance |-> {}]
  /\ nextId = [k \in Kinds |-> IF k = "Artwork" THEN 3 ELSE 1]
  /\ pending = <<>>
  /\ pc = "body"
  /\ last = NoCall
  /\ sessions = 1
  /\ exc = None
  /\ scope = NoScope
  /\ ProcIdle

NextDimensions == SearchByDimensions

SpecDimensions == InitDimensions /\ [][NextDimensions]_vars

\* The artwork's dimension v is known and lies in the side of the bound.
AtLeast(v, bound) == v # NoValue /\ \A x \in v : \A y \in bound : ~(x < y)

AtMost(v, bound) == v # NoValue /\ \A x \in v : \A y \in bound : ~(x > y)

\* C19: search_by_dimensions returns exactly the stored artworks that
\* satisfy every supplied bound, compared inclusively; an omitted bound
\* restricts nothing, a bound of 0 is a supplied bound, no bounds return
\* every artwork, and the search changes no record.
C19_SearchByDimensions ==
  /\ \A b \in DimBounds :
       search_by_dimensions(store, b.min_width, b.max_width, b.min_height,
                            b.max_height)
         = {a \in Artworks :
              /\ b.min_width = NoValue \/ AtLeast(a.width, b.min_width)
              /\ b.max_width = NoValue \/ AtMost(a.width, b.max_width)
              /\ b.min_height = NoValue \/ AtLeast(a.height, b.min_height)
              /\ b.max_height = NoValue \/ AtMost(a.height, b.max_height)}
  /\ search_by_dimensions(store, NoValue, NoValue, NoValue, NoValue) = Artworks
  /\ \A a \in Artworks :
       /\ a.width # NoValue =>
            a \in search_by_dimensions(store, a.width, NoValue, NoValue, NoValue)
       /\ a.width = {0} =>
            a \notin search_by_dimensions(store, {1}, NoValue, NoValue, NoValue)
       /\ a.width = {1} =>
            a \notin search_by_dimensions(store, NoValue, {0}, NoValue, NoValue)

\* A search with max_width = 0 and min_height = 1 has returned the artwork
\* of width 0 and height 1 and left out the one of width 1.
C19_Witness ==
  /\ Artworks = {DimRow("1", {0}, {1}), DimRow("2", {1}, {1})}
  /\ last.op = "search_by_dimensions"
  /\ last.out.args = [min_width |-> NoValue, max_width |-> {0},
                      min_height |-> {1}, max_height |-> NoValue]
  /\ last.out.rows = {DimRow("1", {0}, {1})}

\* ------------------------------------------------------ exhibition dates
\* Instants, as a caller's bounds, as stored dates and as the clock reads.
DateValues == {1, 2, 3}

DateRow(id, start_date, end_date) ==
  [id |-> id, name |-> "n1", start_date |-> start_date, end_date |-> end_date]

\* `if start_date:` on an optional datetime: a datetime is never false, so
\* the test passes exactly when the argument is not None.
is_true(date) == date # NoValue

\* ExhibitionCRUD.get_by_date_range(db, start_date, end_date)
get_by_date_range(S, start_date, end_date) ==
  LET query == S["Exhibition"]
      q1 == IF is_true(start_date)
            THEN {x \in query : GreaterOrEqual(x.end_date, start_date)}
            ELSE query
      q2 == IF is_true(end_date)
            THEN {x \in q1 : LessOrEqual(x.start_date, end_date)}
            ELSE q1
  IN q2

\* ExhibitionCRUD.get_current_exhibitions(db), `now` being what
\* datetime.now() returned.
get_current_exhibitions(S, now) ==
  {x \in S["Exhibition"] :
     LessOrEqual(x.start_date, now) /\ GreaterOrEqual(x.end_date, now)}

GetByDateRange ==
  /\ pc = "body"
  /\ \E start_date \in Optional(DateValues), end_date \in Optional(DateValues) :
       Query("get_by_date_range",
             Returned(store, nextId,
                      [args |-> [start_date |-> start_date, end_date |-> end_date],
                       rows |-> get_by_date_range(store, start_date, end_date)],
                      None))

GetCurrentExhibitions ==
  /\ pc = "body"
  /\ \E now \in DateValues :
       Query("get_current_exhibitions",
             Returned(store, nextId,
                      [args |-> [now |-> {now}],
                       rows |-> get_current_exhibitions(store, {now})],
                      None))

\* Any table of up to two exhibitions, each date an instant or NULL.
InitDates ==
  /\ backend \in Backends
  /\ \E ids \in SUBSET IdStrings :
       \E f \in [ids -> [start_date : Optional(DateValues),
                         end_date : Optional(DateValues)]] :
         store = [Artwork |-> {},
                  Exhibition |->
                    {DateRow(id, f[id].start_date, f[id].end_date) : id \in ids},
                  InstallationPhoto |-> {}, ArtworkAppearance |-> {}]
  /\ nextId = [k \in Kinds |-> IF k = "Exhibition" THEN 3 ELSE 1]
  /\ pending = <<>>
  /\ pc = "body"
  /\ last = NoCall
  /\ sessions = 1
  /\ exc = None
  /\ scope = NoScope
  /\ ProcIdle

NextDates == GetByDateRange \/ GetCurrentExhibitions

SpecDates == InitDates /\ [][NextDates]_vars

\* Both dates of x are known.
Dated(x) == x.start_date # NoValue /\ x.end_date # NoValue

\* The date `d` is known and not before, respectively not after, `bound`.
NotBefore(d, bound) == d # NoValue /\ \A u \in d : \A v \in bound : ~(u < v)

NotAfter(d, bound) == d # NoValue /\ \A u \in d : \A v \in bound : ~(u > v)

\* The interval of x ends before the range starts or starts after it ends.
WhollyOutside(x, start_date, end_date) ==
  \/ \E u \in x.end_date : \E v \in start_date : u < v
  \/ \E u \in x.start_date : \E v \in end_date : u > v

\* C20: get_by_date_range returns exactly the stored exhibitions with
\* end >= start_date and start <= end_date, each bound optional;
\* get_current_exhibitions returns exactly those with start <= now <= end;
\* neither returns an exhibition wholly outside the range, and neither
\* changes a record.
C20_DateRange ==
  /\ \A s \in Optional(DateValues), e \in Optional(DateValues) :
       /\ get_by_date_range(store, s, e)
            = {x \in Exhibitions :
                 /\ s = NoValue \/ NotBefore(x.end_date, s)
                 /\ e = NoValue \/ NotAfter(x.start_date, e)}
       /\ \A x \in get_by_date_range(store, s, e) : ~WhollyOutside(x, s, e)
  /\ \A now \in DateValues :
       /\ get_current_exhibitions(store, {now})
            = {x \in Exhibitions :
                 Dated(x) /\ \A u \in x.start_date : \A v \in x.end_date :
                               u <= now /\ now <= v}
       /\ \A x \in get_current_exhibitions(store, {now}) :
            ~WhollyOutside(x, {now}, {now})
  /\ last.op \in {"get_by_date_range", "get_current_exhibitions"} =>
       last.out.rows \subseteq Exhibitions

\* The range [2, 3] has returned the exhibition [1, 2], which ends on the
\* day the range starts, and left out the exhibition [1, 1].
C20_Witness ==
  /\ Exhibitions = {DateRow("1", {1}, {2}), DateRow("2", {1}, {1})}
  /\ last.op = "get_by_date_range"
  /\ last.out.args = [start_date |-> {2}, end_date |-> {3}]
  /\ last.out.rows = {DateRow("1", {1}, {2})}

\* ------------------------------------------------------------ text search
\* A text is the sequence of its characters.  "_" is the character that a
\* LIKE pattern reads as "any one character".
Texts == {<<"a">>, <<"A">>, <<"b">>, <<"_">>, <<"A", "b">>}

\* What a caller searches for.
Queries == Texts \cup {<<"a", "b">>}

TextRow(id, title, artist) ==
  [id |-> id, title |-> title, artist |-> artist, catalog_number |-> None]

lower_char(c) == IF c = "A" THEN "a" ELSE IF c = "B" THEN "b" ELSE c

\* lower(text)
lower(s) == [i \in DOMAIN s |-> lower_char(s[i])]

\* text LIKE pattern: "%" matches any run of characters, "_" any one
\* character, every other character itself.
RECURSIVE Like(_, _)
Like(s, p) ==
  IF p = <<>> THEN s = <<>>
  ELSE IF Head(p) = "%"
       THEN Like(s, Tail(p)) \/ (s # <<>> /\ Like(Tail(s), p))
       ELSE /\ s # <<>>
            /\ Head(p) = "_" \/ Head(p) = Head(s)
            /\ Like(Tail(s), Tail(p))

\* column.ilike(pattern): lower(column) LIKE lower(pattern).
ilike(column, pattern) == Like(lower(column), lower(pattern))

\* The filter of one text column: `column == text` when exact, else
\* column.ilike(f"%{text}%").
search_by_text(S, c, text, exact) ==
  IF exact
  THEN {a \in S["Artwork"] : a[c] = text}
  ELSE {a \in S["Artwork"] : ilike(a[c], <<"%">> \o text \o <<"%">>)}

\* ArtworkCRUD.search_by_title(db, title, exact)
search_by_title(S, title, exact) == search_by_text(S, "title", title, exact)

\* ArtworkCRUD.search_by_artist(db, artist, exact)
search_by_artist(S, artist, exact) == search_by_text(S, "artist", artist, exact)

SearchByTitle ==
  /\ pc = "body"
  /\ \E title \in Queries, exact \in BOOLEAN :
       Query("search_by_title",
             Returned(store, nextId,
                      [args |-> [text |-> title, exact |-> exact],
                       rows |-> search_by_title(store, title, exact)],
                      None))

SearchByArtist ==
  /\ pc = "body"
  /\ \E artist \in Queries, exact \in BOOLEAN :
       Query("search_by_artist",
             Returned(store, nextId,
                      [args |-> [text |-> artist, exact |-> exact],
                       rows |-> search_by_artist(store, artist, exact)],
                      None))

\* Any table of up to two artworks with any title and any artist.
InitText ==
  /\ backend \in Backends
  /\ \E ids \in SUBSET IdStrings :
       \E f \in [ids -> [title : Texts, artist : Texts]] :
         store = [Artwork |-> {TextRow(id, f[id].title, f[id].artist) : id \in ids},
                  Exhibition |-> {}, InstallationPhoto |-> {},
                  ArtworkAppearance |-> {}]
  /\ nextId = [k \in Kinds |-> IF k = "Artwork" THEN 3 ELSE 1]
  /\ pending = <<>>
  /\ pc = "body"
  /\ last = NoCall
  /\ sessions = 1
  /\ exc = None
  /\ scope = NoScope
  /\ ProcIdle

NextText == SearchByTitle \/ SearchByArtist

SpecText == InitText /\ [][NextText]_vars

\* s contains q as a run of consecutive characters.
Contains(s, q) ==
  \E i \in 0..(Len(s) - Len(q)) : SubSeq(s, i + 1, i + Len(q)) = q

SameIgnoringCase(s, q) == lower(s) = lower(q)

ContainsIgnoringCase(s, q) == Contains(lower(s), lower(q))

\* C21: the searches by title and by artist ignore letter case in both
\* modes: the substring search returns exactly the artworks whose
\* title/artist contains the query, the exact search exactly those whose
\* title/artist equals it, letter case ignored.
C21_SearchIgnoresCase ==
  \A q \in Queries :
    /\ search_by_title(store, q, FALSE)
         = {a \in Artworks : ContainsIgnoringCase(a.title, q)}
    /\ search_by_title(store, q, TRUE)
         = {a \in Artworks : SameIgnoringCase(a.title, q)}
    /\ search_by_artist(store, q, FALSE)
         = {a \in Artworks : ContainsIgnoringCase(a.artist, q)}
    /\ search_by_artist(store, q, TRUE)
         = {a \in Artworks : SameIgnoringCase(a.artist, q)}

\* The exact half alone, and the substring half alone over queries
\* without a pattern character.
C21_ExactIgnoresCase ==
  \A q \in Queries :
    search_by_title(store, q, TRUE)
      = {a \in Artworks : SameIgnoringCase(a.title, q)}

C21_SubstringIgnoresCase ==
  \A q \in Queries :
    (\A i \in DOMAIN q : q[i] # "_") =>
      /\ search_by_title(store, q, FALSE)
           = {a \in Artworks : ContainsIgnoringCase(a.title, q)}
      /\ search_by_artist(store, q, FALSE)
           = {a \in Artworks : ContainsIgnoringCase(a.artist, q)}

\* ------------------------------------------------------- mark processed
\* Detection output: the empty dictionary and two non-empty ones.
Blobs == {"{}", "{a}", "{b}"}

PhotoRow(id, processed, processing_date, detection_results) ==
  [id |-> id, exhibition_id |-> "1", processed |-> processed,
   processing_date |-> processing_date,
   detection_results |-> detection_results]

\* InstallationPhotoCRUD.get_unprocessed(db)
get_unprocessed(S) == {p \in S["InstallationPhoto"] : p.processed = "False"}

MarkProcessed ==
  /\ pc = "body"
  /\ \E id \in IdStrings, now \in DateValues,
        detection_results \in Blobs \cup {None} :
       Call("mark_processed", mark_processed(id, {now}, detection_results))

GetUnprocessed ==
  /\ pc = "body"
  /\ Query("get_unprocessed",
           Returned(store, nextId, get_unprocessed(store), None))

\* One exhibition and any table of up to two photos of it, processed or
\* not, with or without detection results.
InitPhoto ==
  /\ backend \in Backends
  /\ \E ids \in SUBSET IdStrings :
       \E f \in [ids -> [processed : {"True", "False"},
                         processing_date : Optional({1}),
                         detection_results : {None, "{}", "{a}"}]] :
         store = [Artwork |-> {},
                  Exhibition |-> {[id |-> "1", name |-> "n1"]},
                  InstallationPhoto |->
                    {PhotoRow(id, f[id].processed, f[id].processing_date,
                              f[id].detection_results) : id \in ids},
                  ArtworkAppearance |-> {}]
  /\ nextId = [k \in Kinds |-> CASE k = "Exhibition" -> 2
                                 [] k = "InstallationPhoto" -> 3
                                 [] OTHER -> 1]
  /\ pending = <<>>
  /\ pc = "body"
  /\ last = NoCall
  /\ sessions = 1
  /\ exc = None
  /\ scope = NoScope
  /\ ProcIdle

NextPhoto == MarkProcessed \/ GetUnprocessed

SpecPhoto == InitPhoto /\ [][NextPhoto]_vars

\* What mark_processed(id, detection_results) must leave, `supplied`
\* telling which arguments count as a supplied blob.
MarkProcessedEffect(id, now, detection_results, supplied) ==
  LET r == mark_processed(id, {now}, detection_results)
      p == CHOOSE p \in Photos : p.id = id
      q == CHOOSE q \in r.store["InstallationPhoto"] : q.id = id
  IN /\ r.out = "True"
     /\ \E x \in r.store["InstallationPhoto"] : x.id = id
     /\ q.processed = "True"
     /\ q.processing_date # NoValue
     /\ q \notin get_unprocessed(r.store)
     /\ q.detection_results =
          IF supplied THEN detection_results ELSE p.detection_results
     /\ q.exhibition_id = p.exhibition_id
     /\ r.store["InstallationPhoto"] \ {q} = Photos \ {p}
     /\ \A k \in Kinds \ {"InstallationPhoto"} : r.store[k] = store[k]

\* C22: mark_processed on an existing photo returns true and leaves it
\* processed with a processing date, out of get_unprocessed; its
\* detection_results is the supplied blob when one is supplied and is
\* unchanged when none is; no other field and no other record changes.
C22_MarkProcessed ==
  \A p \in Photos : \A now \in DateValues :
    \A detection_results \in Blobs \cup {None} :
      MarkProcessedEffect(p.id, now, detection_results,
                          detection_results # None)

\* The same with the empty dictionary counted as no blob.
C22_MarkProcessedNonEmpty ==
  \A p \in Photos : \A now \in DateValues :
    \A detection_results \in Blobs \cup {None} :
      MarkProcessedEffect(p.id, now, detection_results,
                          detection_results \notin {None, "{}"})

\* ------------------------------------------------------ verify appearance
Verifiers == {"u1", "u2"}

\* Free-text notes: the empty text and two others.
Notes == {"", "n1", "n2"}

AppearanceRow(id, verified, verified_by, verification_date, notes) ==
  [id |-> id, artwork_id |-> "1", photo_id |-> "1", verified |-> verified,
   verified_by |-> verified_by, verification_date |-> verification_date,
   notes |-> notes, matching_confidence |-> 5]

\* ArtworkAppearanceCRUD.get_verified(db)
get_verified(S) == {x \in S["ArtworkAppearance"] : x.verified = "True"}

\* ArtworkAppearanceCRUD.get_unverified(db)
get_unverified(S) == {x \in S["ArtworkAppearance"] : x.verified = "False"}

VerifyAppearance ==
  /\ pc = "body"
  /\ \E id \in IdStrings, now \in DateValues, verified_by \in Verifiers,
        notes \in Notes \cup {None} :
       Call("verify_appearance",
            verify_appearance(id, {now}, verified_by, notes))

GetVerified ==
  /\ pc = "body"
  /\ Query("get_verified", Returned(store, nextId, get_verified(store), None))

GetUnverified ==
  /\ pc = "body"
  /\ Query("get_unverified",
           Returned(store, nextId, get_unverified(store), None))

\* One artwork in one photo of one exhibition and any table of up to two
\* appearances of it, verified or not, with or without notes.
InitVerify ==
  /\ backend \in Backends
  /\ \E ids \in SUBSET IdStrings :
       \E f \in [ids -> [verified : {"True", "False"},
                         verified_by : {None, "u1"},
                         verification_date : Optional({1}),
                         notes : {None, "", "n1"}]] :
         store = [Artwork |-> {[id |-> "1", title |-> "t1", catalog_number |-> None]},
                  Exhibition |-> {[id |-> "1", name |-> "n1"]},
                  InstallationPhoto |->
                    {[id |-> "1", exhibition_id |-> "1", processed |-> "False"]},
                  ArtworkAppearance |->
                    {AppearanceRow(id, f[id].verified, f[id].verified_by,
                                   f[id].verification_date, f[id].notes) :
                       id \in ids}]
  /\ nextId = [k \in Kinds |-> IF k = "ArtworkAppearance" THEN 3 ELSE 2]
  /\ pending = <<>>
  /\ pc = "body"
  /\ last = NoCall
  /\ sessions = 1
  /\ exc = None
  /\ scope = NoScope
  /\ ProcIdle

NextVerify == VerifyAppearance \/ GetVerified \/ GetUnverified \/ GetStatistics

SpecVerify == InitVerify /\ [][NextVerify]_vars

\* What verify_appearance(id, verified_by, notes) must leave, `supplied`
\* telling which arguments count as supplied notes.
VerifyEffect(id, now, verified_by, notes, supplied) ==
  LET r == verify_appearance(id, {now}, verified_by, notes)
      p == CHOOSE p \in Appearances : p.id = id
      q == CHOOSE q \in r.store["ArtworkAppearance"] : q.id = id
      before == statistics(store).verified_appearances
      after == statistics(r.store).verified_appearances
  IN /\ r.out = "True"
     /\ \E x \in r.store["ArtworkAppearance"] : x.id = id
     /\ q.verified = "True"
     /\ q.verified_by = verified_by
     /\ q.verification_date # NoValue
     /\ q.notes = IF supplied THEN notes ELSE p.notes
     /\ q \in get_verified(r.store) /\ q \notin get_unverified(r.store)
     /\ after = IF p.verified = "True" THEN before ELSE before + 1
     /\ r.store["ArtworkAppearance"] \ {q} = Appearances \ {p}

\* C23: verify_appearance on an existing appearance returns true and leaves
\* it verified, by the supplied verifier, with a verification date; notes
\* is replaced when notes are supplied and unchanged otherwise; the
\* appearance is then in get_verified and not in get_unverified, and the
\* verified count of get_statistics has grown by one if it was not
\* verified before and is unchanged if it was.
C23_VerifyAppearance ==
  \A p \in Appearances : \A now \in DateValues : \A verified_by \in Verifiers :
    \A notes \in Notes \cup {None} :
      VerifyEffect(p.id, now, verified_by, notes, notes # None)

\* The same with the empty text counted as no notes.
C23_VerifyAppearanceNonEmpty ==
  \A p \in Appearances : \A now \in DateValues : \A verified_by \in Verifiers :
    \A notes \in Notes \cup {None} :
      VerifyEffect(p.id, now, verified_by, notes, notes \notin {None, ""})

\* --------------------------------------------- the appearance repository
\* create and update on the appearance repository, the verified flag
\* among the keywords.
AppearanceKwargs == KwargsOver({"artwork_id", "photo_id", "verified"})

VerifiedKwargs == KwargsOver({"verified"})

CreateAppearance(kwargs) ==
  /\ ToString(nextId["ArtworkAppearance"]) \in IdStrings
  /\ Call("create", create("ArtworkAppearance", kwargs))

\* One artwork and one photo of one exhibition, no appearance yet.
InitAppearance ==
  /\ backend \in Backends
  /\ store = [Artwork |-> {[id |-> "1", title |-> "t1", catalog_number |-> None]},
              Exhibition |-> {[id |-> "1", name |-> "n1"]},
              InstallationPhoto |->
                {[id |-> "1", exhibition_id |-> "1", processed |-> "False"]},
              ArtworkAppearance |-> {}]
  /\ nextId = [k \in Kinds |-> IF k = "ArtworkAppearance" THEN 1 ELSE 2]
  /\ pending = <<>>
  /\ pc = "body"
  /\ last = NoCall
  /\ sessions = 1
  /\ exc = None
  /\ scope = NoScope
  /\ ProcIdle

NextAppearance ==
  \/ \E kwargs \in AppearanceKwargs : CreateAppearance(kwargs)
  \/ \E id \in IdStrings : \E kwargs \in VerifiedKwargs :
       Update("ArtworkAppearance", id, kwargs)
  \/ \E id \in IdStrings : Delete("ArtworkAppearance", id)
  \/ VerifyAppearance
  \/ GetVerified
  \/ GetUnverified
  \/ GetStatistics

SpecAppearance == InitAppearance /\ [][NextAppearance]_vars

\* C24: after any sequence of create, update, verify_appearance and delete
\* on appearances, get_verified and get_unverified partition the stored
\* appearances, and their sizes are the verified and unverified counts of
\* get_statistics.
C24_VerifiedPartition ==
  LET V == get_verified(store)
      U == get_unverified(store)
      s == statistics(store)
  IN /\ V \cup U = Appearances
     /\ V \cap U = {}
     /\ Cardinality(V) = s.verified_appearances
     /\ Cardinality(U) = s.unverified_appearances

\* The same over the appearances whose verified flag is not NULL.
C24_PartitionOfFlagged ==
  LET V == get_verified(store)
      U == get_unverified(store)
  IN /\ V \cup U = {x \in Appearances : x.verified # None}
     /\ V \cap U = {}
     /\ Cardinality(V) = statistics(store).verified_appearances

====
